---- MODULE Spec2Model ----
(***************************************************************************)
(* Model of the supply chain agents of backend/agents:                     *)
(*   replenishment_planner.compute_replenishment                           *)
(*   demand_forecaster.forecast_demand (with _aggregate_daily_series)      *)
(*   meio_optimizer.optimize_inventory                                     *)
(* and of orchestrator.run_pipeline, which calls them through the API of   *)
(* backend/main.                                                           *)
(*                                                                         *)
(* The agents are pure functions.  A state holds one call: the arguments   *)
(* (req), the position of the call (pc), the local variables of the        *)
(* function at its return (local) and the returned value (resp).           *)
(*                                                                         *)
(* Numbers.  A Python float is an IEEE 754 double and is modelled as one:  *)
(* the record [s, m, e] stands for s * m * 2^e, with s the sign (1, -1, or *)
(* 0 for zero) and m the 53-bit significand (2^52 <= m < 2^53).  Every     *)
(* operation computes the exact result and rounds it to the nearest        *)
(* double, ties to even, as the hardware does.  A significand does not fit *)
(* the integers of the model checker, so it is a natural number written in *)
(* base 2^15, least significant digit first.  Exponents are not bounded:   *)
(* overflow, subnormal numbers, infinities, NaN and the sign of zero are   *)
(* outside the model (x ** 2 raises OverflowError where the square         *)
(* overflows).  The one operation that is not correctly rounded is x ** 2  *)
(* of optimize_inventory, the C library's pow: it may return either        *)
(* neighbour of an inexact square, the same one at every call (libm).      *)
(* Sales quantities and order quantities are integers.                     *)
(***************************************************************************)
EXTENDS Integers, Sequences, FiniteSets, TLC

VARIABLES req, pc, local, resp

vars == <<req, pc, local, resp>>

\* ------------------------------------------------- numbers: big naturals

Max(a, b) == IF a >= b THEN a ELSE b
Min(a, b) == IF a <= b THEN a ELSE b

\* A natural number is the sequence of its digits in base Limb, the least
\* significant first and the last one not 0; zero is the empty sequence.
Limb == 2^15

Limb0(a) == IF a = <<>> THEN 0 ELSE Head(a)
Rest(a) == IF a = <<>> THEN <<>> ELSE Tail(a)

RECURSIVE BTrim(_)
BTrim(a) ==
    IF a = <<>> THEN a
    ELSE IF a[Len(a)] = 0 THEN BTrim(SubSeq(a, 1, Len(a) - 1)) ELSE a

RECURSIVE BFromInt(_)
BFromInt(n) == IF n = 0 THEN <<>> ELSE <<n % Limb>> \o BFromInt(n \div Limb)

RECURSIVE BToInt(_)
BToInt(a) == IF a = <<>> THEN 0 ELSE Head(a) + Limb * BToInt(Tail(a))

RECURSIVE BAddC(_, _, _)
BAddC(a, b, c) ==
    IF a = <<>> /\ b = <<>> THEN BFromInt(c)
    ELSE LET s == Limb0(a) + Limb0(b) + c
         IN  <<s % Limb>> \o BAddC(Rest(a), Rest(b), s \div Limb)

BAdd(a, b) == BAddC(a, b, 0)

RECURSIVE BSubB(_, _, _)
BSubB(a, b, c) ==
    IF a = <<>> THEN <<>>
    ELSE LET d == Head(a) - Limb0(b) - c
         IN  <<d % Limb>> \o BSubB(Tail(a), Rest(b), IF d < 0 THEN 1 ELSE 0)

\* a - b for a >= b
BSub(a, b) == BTrim(BSubB(a, b, 0))

RECURSIVE BCmpAt(_, _, _)
BCmpAt(a, b, i) ==
    IF i = 0 THEN 0
    ELSE IF a[i] # b[i] THEN (IF a[i] < b[i] THEN -1 ELSE 1)
    ELSE BCmpAt(a, b, i - 1)

\* -1, 0 or 1 as a < b, a = b or a > b
BCmp(a, b) ==
    IF Len(a) # Len(b) THEN (IF Len(a) < Len(b) THEN -1 ELSE 1)
    ELSE BCmpAt(a, b, Len(a))

RECURSIVE BMulSmallC(_, _, _)
BMulSmallC(a, k, c) ==
    IF a = <<>> THEN BFromInt(c)
    ELSE LET p == Head(a) * k + c
         IN  <<p % Limb>> \o BMulSmallC(Tail(a), k, p \div Limb)

\* a * k for 0 <= k < Limb
BMulSmall(a, k) == IF k = 0 THEN <<>> ELSE BMulSmallC(a, k, 0)

\* a * Limb^n
BShiftLimbs(a, n) == IF a = <<>> THEN <<>> ELSE [i \in 1..n |-> 0] \o a

RECURSIVE BMul(_, _)
BMul(a, b) ==
    IF a = <<>> \/ b = <<>> THEN <<>>
    ELSE BAdd(BMulSmall(a, Head(b)), BShiftLimbs(BMul(a, Tail(b)), 1))

\* a * 2^n
BShl(a, n) == BShiftLimbs(BMulSmall(a, 2^(n % 15)), n \div 15)

RECURSIVE BDivSmallQR(_, _)
BDivSmallQR(a, k) ==
    IF a = <<>> THEN [q |-> <<>>, r |-> 0]
    ELSE LET hi == BDivSmallQR(Tail(a), k)
             cur == hi.r * Limb + Head(a)
         IN  [q |-> <<cur \div k>> \o hi.q, r |-> cur % k]

\* the quotient q and the remainder r of a by k, 0 < k <= Limb
BDivSmall(a, k) ==
    LET d == BDivSmallQR(a, k) IN [q |-> BTrim(d.q), r |-> d.r]

\* a \div 2^n
BShr(a, n) ==
    IF n \div 15 >= Len(a) THEN <<>>
    ELSE BDivSmall(SubSeq(a, n \div 15 + 1, Len(a)), 2^(n % 15)).q

RECURSIVE BitLenInt(_)
BitLenInt(n) == IF n = 0 THEN 0 ELSE 1 + BitLenInt(n \div 2)

\* the number of binary digits of a
BBitLen(a) == IF a = <<>> THEN 0 ELSE 15 * (Len(a) - 1) + BitLenInt(a[Len(a)])

\* -1, 0 or 1 as the part of n below 2^k (q is n \div 2^k) is less than,
\* equal to or more than half of 2^k
BHalfCmp(n, q, k) == BCmp(BShl(BSub(n, BShl(q, k)), 1), BShl(<<1>>, k))

\* q or q + 1 as the part dropped compares (c) to a half: up above a half,
\* and at a half when q is odd
BRoundUp(q, c) ==
    IF c > 0 \/ (c = 0 /\ Limb0(q) % 2 = 1) THEN BAdd(q, <<1>>) ELSE q

\* n / 2^k rounded to the nearest natural, q being n \div 2^k
BRoundQuotient(n, q, k) == BRoundUp(q, BHalfCmp(n, q, k))

\* n * 2^e (e any integer) rounded to the nearest natural, a tie to the even
BRoundShift(n, e) ==
    IF e >= 0 THEN BShl(n, e) ELSE BRoundQuotient(n, BShr(n, -e), -e)

RECURSIVE ISqrtIter(_, _, _)
\* The largest r in lo..hi with r * r <= n (lo * lo <= n < (hi+1) * (hi+1)).
ISqrtIter(lo, hi, n) ==
    IF lo >= hi THEN lo
    ELSE LET mid == (lo + hi + 1) \div 2
         IN  IF mid * mid <= n THEN ISqrtIter(mid, hi, n)
             ELSE ISqrtIter(lo, mid - 1, n)

\* The square root digit by digit in base Limb, as in the long-hand method:
\* with root2 = 2 * root * Limb, the next digit is the largest d with
\* (root2 + d) * d <= rem.
BSqrtTerm(root2, d) == BMulSmall(BAdd(root2, <<d>>), d)

RECURSIVE BSqrtDigitDown(_, _, _)
BSqrtDigitDown(root2, rem, d) ==
    IF d > 0 /\ BCmp(BSqrtTerm(root2, d), rem) > 0
    THEN BSqrtDigitDown(root2, rem, d - 1)
    ELSE d

RECURSIVE BSqrtDigitUp(_, _, _)
BSqrtDigitUp(root2, rem, d) ==
    IF d < Limb - 1 /\ BCmp(BSqrtTerm(root2, d + 1), rem) <= 0
    THEN BSqrtDigitUp(root2, rem, d + 1)
    ELSE d

\* The digit is guessed from the leading 15 bits of root2, then corrected.
BSqrtGuess(root2, rem, k) ==
    Min(Limb - 1, BToInt(BShr(rem, k)) \div BToInt(BShr(root2, k)))

BSqrtDigit(root2, rem) ==
    IF root2 = <<>> THEN ISqrtIter(0, Limb - 1, BToInt(rem))
    ELSE BSqrtDigitUp(root2, rem,
             BSqrtDigitDown(root2, rem,
                 BSqrtGuess(root2, rem, BBitLen(root2) - 15)))

\* The root and the remainder once the digit d is appended to the root.
BSqrtAppend(root, rem, root2, d) ==
    [root |-> BTrim(<<d>> \o root), rem |-> BSub(rem, BSqrtTerm(root2, d))]

BSqrtStep(root, rem, root2) ==
    BSqrtAppend(root, rem, root2, BSqrtDigit(root2, rem))

RECURSIVE BSqrtPairs(_, _)
\* The root and the remainder of the leading p pairs of digits of n.
BSqrtPairs(n, p) ==
    IF p = 0 THEN [root |-> <<>>, rem |-> <<>>]
    ELSE LET prev == BSqrtPairs(n, p - 1)
             i == Len(n) - 2 * p
         IN  BSqrtStep(prev.root,
                       BTrim(<<n[i + 1], n[i + 2]>> \o prev.rem),
                       BShiftLimbs(BMulSmall(prev.root, 2), 1))

\* x with an even number of digits
BPadPairs(x) == IF Len(x) % 2 = 1 THEN x \o <<0>> ELSE x

BSqrtPadded(padded) == BSqrtPairs(padded, Len(padded) \div 2).root

\* the even power of 2 that scales n to a whole number of digit pairs with a
\* leading digit of at least Limb / 4
BSqrtShift(n) ==
    ((30 - (BBitLen(n) % 30)) % 30) - (((30 - (BBitLen(n) % 30)) % 30) % 2)

\* floor(sqrt(n))
BSqrt(n) ==
    IF n = <<>> THEN <<>>
    ELSE BShr(BSqrtPadded(BPadPairs(BShl(n, BSqrtShift(n)))),
              BSqrtShift(n) \div 2)

RECURSIVE BFromDecimal(_)
\* The natural number written in base 10^4, most significant digit first.
BFromDecimal(ds) ==
    IF ds = <<>> THEN <<>>
    ELSE BAdd(BMulSmall(BFromDecimal(SubSeq(ds, 1, Len(ds) - 1)), 10^4),
              BFromInt(ds[Len(ds)]))

RECURSIVE BDivPow10(_, _)
\* n \div 10^k, and whether the division left a remainder (r = 1); four
\* decimal places at a time.
BDivPow10(n, k) ==
    IF k = 0 THEN [q |-> n, r |-> 0]
    ELSE LET d == BDivSmall(n, 10^Min(k, 4))
         IN  IF d.r = 0 THEN BDivPow10(d.q, k - Min(k, 4))
             ELSE [q |-> BDivPow10(d.q, k - Min(k, 4)).q, r |-> 1]

\* ------------------------------------------------------ numbers: doubles

FZero == [s |-> 0, m |-> <<>>, e |-> 0]

\* The double nearest to s * n * 2^e (n a natural number), ties to even.
FNormal(s, q, e) ==
    IF BBitLen(q) > 53 THEN [s |-> s, m |-> BShr(q, 1), e |-> e + 1]
    ELSE [s |-> s, m |-> q, e |-> e]

FRoundBits(s, n, e, len) ==
    IF len <= 53 THEN [s |-> s, m |-> BShl(n, 53 - len), e |-> e - (53 - len)]
    ELSE FNormal(s, BRoundShift(n, 53 - len), e + len - 53)

FRound(s, n, e) ==
    IF n = <<>> \/ s = 0 THEN FZero ELSE FRoundBits(s, n, e, BBitLen(n))

\* The double nearest to s * n * 2^e when the exact value lies strictly
\* between n * 2^e and (n + 1) * 2^e (inexact) or is n * 2^e; n has more
\* than 54 bits, so one more bit below n decides the rounding.
FRoundSticky(s, n, inexact, e) ==
    FRound(s, BAdd(BShl(n, 1), IF inexact THEN <<1>> ELSE <<>>), e - 1)

FNeg(a) == [a EXCEPT !.s = -a.s]

\* a + b
\* sa * x * 2^e0 + sb * y * 2^e0 for naturals x and y, c comparing x to y
FAddAligned(sa, x, sb, y, c, e0) ==
    FRound(IF sa = sb \/ c > 0 THEN sa ELSE sb,
           IF sa = sb THEN BAdd(x, y)
           ELSE IF c > 0 THEN BSub(x, y) ELSE BSub(y, x),
           e0)

FAddAt(a, b, x, y, e0) == FAddAligned(a.s, x, b.s, y, BCmp(x, y), e0)

FAdd(a, b) ==
    IF a.s = 0 THEN b
    ELSE IF b.s = 0 THEN a
    ELSE FAddAt(a, b, BShl(a.m, a.e - Min(a.e, b.e)),
                BShl(b.m, b.e - Min(a.e, b.e)), Min(a.e, b.e))

\* a - b
FSub(a, b) == FAdd(a, FNeg(b))

\* a * b
FMul(a, b) ==
    IF a.s = 0 \/ b.s = 0 THEN FZero
    ELSE FRound(a.s * b.s, BMul(a.m, b.m), a.e + b.e)

\* The double nearest to s * x * 2^e, x lying at d.q if d.r = 0 and strictly
\* between d.q and d.q + 1 otherwise.
FQuotient(s, d, e) == FRoundSticky(s, d.q, d.r # 0, e)

\* a / n for an integer n, 0 < n < Limb
FDivInt(a, n) ==
    IF a.s = 0 THEN FZero
    ELSE FQuotient(a.s, BDivSmall(BShl(a.m, 30), n), a.e - 30)

\* sqrt(n) * 2^e, r being floor(sqrt(n))
FSqrtRounded(n, r, e) == FRoundSticky(1, r, BCmp(BMul(r, r), n) # 0, e)

FSqrtScaled(n, e) == FSqrtRounded(n, BSqrt(n), e)

\* sqrt(a) for a >= 0
FSqrt(a) ==
    IF a.s = 0 THEN FZero
    ELSE FSqrtScaled(BShl(a.m, 58 + (a.e % 2)), (a.e - 58 - (a.e % 2)) \div 2)

\* a < b, a <= b, max(a, b) (Python's max: the first of two equal arguments)
FLt(a, b) == FSub(a, b).s < 0
FLe(a, b) == FSub(a, b).s <= 0
FMax(a, b) == IF FLt(a, b) THEN b ELSE a

\* float(k) of an integer k
FromInt(k) ==
    FRound(IF k < 0 THEN -1 ELSE 1, BFromInt(IF k < 0 THEN -k ELSE k), 0)

\* k / 4
Quarters(k) == LET f == FromInt(k) IN [f EXCEPT !.e = IF k = 0 THEN 0 ELSE @ - 2]

\* The double nearest to s * n / 10^k, n a natural number.
FDecimal(s, n, k) == FQuotient(s, BDivPow10(BShl(n, 120), k), -120)

\* A float literal: the digits ds (in base 10^4, most significant first)
\* with the decimal point k places from the right, 1.2815516 being
\* FromDecimal(<<1281, 5516>>, 7).
FromDecimal(ds, k) == FDecimal(1, BFromDecimal(ds), k)

\* Python's round(a): the nearest integer, a tie going to the even one.
PyRound(a) == a.s * BToInt(BRoundShift(a.m, a.e))

\* Python's int(a): a truncated towards zero.
PyTrunc(a) == IF a.e >= 0 THEN a.s * BToInt(BShl(a.m, a.e)) ELSE a.s * BToInt(BShr(a.m, -a.e))

\* Python's round(a, k), 0 <= k <= 4: the exact value of a rounded to k
\* decimal places (a tie to the even digit), then the double nearest to that
\* decimal number.
PyRoundDigits(a, k) ==
    FDecimal(a.s, BRoundShift(BMulSmall(a.m, 10^k), a.e), k)

\* The square x * x as numpy's square computes it: the product, rounded.
FSquare(x) == FMul(x, x)

\* Of the two doubles around n * 2^e, which is not a double itself, the one
\* that is not the nearest; q is n \div 2^k, of 53 bits.
FOtherNeighbour(n, e, q, k) ==
    FNormal(1, IF BRoundQuotient(n, q, k) = q THEN BAdd(q, <<1>>) ELSE q, e + k)

\* n * 2^e if it is a double, else the neighbour that is not the nearest.
FOtherQuotient(n, e, q, k) ==
    IF BShl(q, k) = n THEN FNormal(1, q, e + k) ELSE FOtherNeighbour(n, e, q, k)

FOtherRounded(n, e) ==
    FOtherQuotient(n, e, BShr(n, BBitLen(n) - 53), BBitLen(n) - 53)

\* x * x rounded to the neighbour that is not the nearest double (x * x
\* itself when it is a double).
Pow2Other(x) ==
    IF x.s = 0 THEN FZero ELSE FOtherRounded(BMul(x.m, x.m), 2 * x.e)

\* x ** 2 is the C library's pow(x, 2.0).  pow is not correctly rounded: it
\* returns the exact square when that is a double, and otherwise one of the
\* two doubles around the exact square, which one depending on the library.
\* The library is modelled by libm, the set of the arguments for which its
\* pow(x, 2.0) is not the nearest double.
Pow2(x, libm) == IF x \in libm THEN Pow2Other(x) ELSE FMul(x, x)

\* The libraries that differ on the arguments xs: every set of arguments
\* whose square is not a double.
Libms(xs) == SUBSET {x \in xs : Pow2Other(x) # FMul(x, x)}
\* ------------------------------------------------- replenishment_planner

\* Mutants of compute_replenishment: the comparison made inclusive; the
\* rounding replaced by int()'s truncation; the clamp at zero dropped.
compute_replenishment_le(net_available, reorder_point, base_stock) ==
    IF FLe(net_available, reorder_point)
    THEN Max(0, PyRound(FSub(base_stock, net_available)))
    ELSE 0

compute_replenishment_trunc(net_available, reorder_point, base_stock) ==
    IF FLt(net_available, reorder_point)
    THEN Max(0, PyTrunc(FSub(base_stock, net_available)))
    ELSE 0

compute_replenishment_noclamp(net_available, reorder_point, base_stock) ==
    IF FLt(net_available, reorder_point)
    THEN PyRound(FSub(base_stock, net_available))
    ELSE 0

\* compute_replenishment(net_available, reorder_point, base_stock): the order
\* quantity, an integer.
compute_replenishment(net_available, reorder_point, base_stock) ==
    IF FLt(net_available, reorder_point)
    THEN LET order_qty == FSub(base_stock, net_available)
         IN  Max(0, PyRound(order_qty))
    ELSE 0

\* The local variables of compute_replenishment at its return: order_qty is
\* assigned in the branch that orders only.
replenishment_locals(net_available, reorder_point, base_stock) ==
    IF FLt(net_available, reorder_point)
    THEN [fn |-> "compute_replenishment",
          order_qty |-> FSub(base_stock, net_available)]
    ELSE [fn |-> "compute_replenishment"]

\* ------------------------------------------------------ demand_forecaster

\* z10 and z90 of forecast_demand.
Z90 == FromDecimal(<<1, 2815, 5156, 5544, 6004>>, 16)
Z10 == FNeg(Z90)

\* The rows of sales_data with the given sku_id and site_id, in their order
\* (the boolean mask of forecast_demand).
filter_sales(sales_data, sku_id, site_id) ==
    SelectSeq(sales_data, LAMBDA r : r.sku_id = sku_id /\ r.site_id = site_id)

RECURSIVE SumQtyOn(_, _)
\* The sum of qty over the rows of df dated d (0 when there is none).
SumQtyOn(df, d) ==
    IF df = <<>> THEN 0
    ELSE (IF Head(df).date = d THEN Head(df).qty ELSE 0) + SumQtyOn(Tail(df), d)

SetMin(S) == CHOOSE x \in S : \A y \in S : x <= y
SetMax(S) == CHOOSE x \in S : \A y \in S : x >= y

\* Mutant of _aggregate_daily_series: the days without a row dropped instead
\* of filled with 0 (a groupby in place of the resample).
aggregate_daily_series_sparse(df) ==
    LET dates == {df[i].date : i \in DOMAIN df}
        nth[k \in 1..Cardinality(dates)] ==
            IF k = 1 THEN SetMin(dates)
            ELSE SetMin({d \in dates : d > nth[k - 1]})
    IN  [k \in 1..Cardinality(dates) |->
            [date |-> nth[k], qty |-> SumQtyOn(df, nth[k])]]

\* _aggregate_daily_series(df): df["qty"].resample("D").sum().fillna(0), one
\* entry per day from the first to the last date of df, in date order.
aggregate_daily_series(df) ==
    IF df = <<>> THEN <<>>
    ELSE LET dates == {df[i].date : i \in DOMAIN df}
             first == SetMin(dates)
             last == SetMax(dates)
         IN  [k \in 1..(last - first + 1) |->
                 [date |-> first + k - 1, qty |-> SumQtyOn(df, first + k - 1)]]

\* Mutant of tail: the first n entries (head) instead of the last.
tail_head(series, n) ==
    IF n >= 0 THEN SubSeq(series, 1, Min(n, Len(series)))
    ELSE SubSeq(series, 1, Max(0, Len(series) + n))

\* series.tail(n): the last n entries, all of them when n exceeds the
\* length; for n < 0 all but the first -n entries (iloc[-n:]).
tail(series, n) ==
    IF n >= 0
    THEN SubSeq(series, Len(series) - Min(n, Len(series)) + 1, Len(series))
    ELSE SubSeq(series, Min(-n, Len(series)) + 1, Len(series))

RECURSIVE FSumFrom(_, _)
\* res += a[i] over the entries of a in order, from res.
FSumFrom(res, a) ==
    IF a = <<>> THEN res ELSE FSumFrom(FAdd(res, Head(a)), Tail(a))

RECURSIVE FSumPairs(_, _, _)
\* r[lo] + .. + r[hi] added in pairs: (r[1] + r[2]) + (r[3] + r[4]), ..
FSumPairs(r, lo, hi) ==
    IF lo = hi THEN r[lo]
    ELSE FAdd(FSumPairs(r, lo, (lo + hi) \div 2),
              FSumPairs(r, (lo + hi) \div 2 + 1, hi))

\* The j-th of the eight interleaved partial sums over the groups of 8.
PartialSum(a, j, groups) ==
    FSumFrom(a[j], [g \in 1..(groups - 1) |-> a[8 * g + j]])

RECURSIVE pairwise_sum(_)
\* The sum of a float array as numpy's add.reduce computes it: in order for
\* fewer than 8 entries; up to 128 entries in eight interleaved partial sums
\* that are then added in pairs, the entries after the last full group of 8
\* in order; longer arrays in two halves.
pairwise_sum(a) ==
    LET n == Len(a)
        n2 == (n \div 2) - ((n \div 2) % 8)
    IN  FSumFrom(
            IF n < 8 THEN FZero
            ELSE IF n <= 128
            THEN FSumPairs([j \in 1..8 |-> PartialSum(a, j, n \div 8)], 1, 8)
            ELSE FAdd(pairwise_sum(SubSeq(a, 1, n2)),
                      pairwise_sum(SubSeq(a, n2 + 1, n))),
            IF n < 8 THEN a
            ELSE IF n <= 128 THEN SubSeq(a, 8 * (n \div 8) + 1, n)
            ELSE <<>>)

\* The quantities of the entries as floats (astype("f8")).
qty_values(recent) == [k \in DOMAIN recent |-> FromInt(recent[k].qty)]

\* recent.mean(): the sum of the entries divided by their number.
series_mean(recent) == FDivInt(pairwise_sum(qty_values(recent)), Len(recent))

\* recent.std(ddof=0): the square root of the variance that pandas computes
\* in two passes, avg = sum / count, then sum((avg - values) ** 2) / count.
nanvar_sqr(values, avg) ==
    [k \in DOMAIN values |-> FSquare(FSub(avg, values[k]))]

nanvar(values, count) ==
    FDivInt(pairwise_sum(nanvar_sqr(values, FDivInt(pairwise_sum(values), count))),
            count)

series_std(recent) == FSqrt(nanvar(qty_values(recent), Len(recent)))

\* Mutants of forecast_point: the quantiles left unclamped; the median
\* accumulated over the days instead of repeated.
forecast_point_noclamp(i, mean, std) ==
    LET p50 == mean
        p10 == IF FLt(FZero, std) THEN FAdd(mean, FMul(Z10, std)) ELSE p50
        p90 == IF FLt(FZero, std) THEN FAdd(mean, FMul(Z90, std)) ELSE p50
    IN  [day |-> i + 1, p10 |-> p10, p50 |-> p50, p90 |-> p90]

forecast_point_cumulative(i, mean, std) ==
    LET p50 == FMul(mean, FromInt(i + 1))
        p10 == IF FLt(FZero, std)
               THEN FMax(FZero, FAdd(mean, FMul(Z10, std))) ELSE p50
        p90 == IF FLt(FZero, std)
               THEN FMax(FZero, FAdd(mean, FMul(Z90, std))) ELSE p50
    IN  [day |-> i + 1, p10 |-> p10, p50 |-> p50, p90 |-> p90]

\* The body of the loop of forecast_demand for index i of range(forecast_horizon).
forecast_point(i, mean, std) ==
    LET p50 == mean
        p10 == IF FLt(FZero, std)
               THEN FMax(FZero, FAdd(mean, FMul(Z10, std))) ELSE p50
        p90 == IF FLt(FZero, std)
               THEN FMax(FZero, FAdd(mean, FMul(Z90, std))) ELSE p50
    IN  [day |-> i + 1, p10 |-> p10, p50 |-> p50, p90 |-> p90]

\* The local variables of forecast_demand at its return.  On the early
\* return (no matching row) only df is assigned.
forecast_locals(sales_data, sku_id, site_id, history_window) ==
    LET df == filter_sales(sales_data, sku_id, site_id)
        series == aggregate_daily_series(df)
        recent == tail(series, history_window)
    IN  IF df = <<>>
        THEN [fn |-> "forecast_demand", df |-> df]
        ELSE [fn |-> "forecast_demand", df |-> df, series |-> series,
              recent |-> recent,
              mean |-> IF recent # <<>> THEN series_mean(recent) ELSE FZero,
              std |-> IF Len(recent) > 1 THEN series_std(recent) ELSE FZero]

\* The points of range(forecast_horizon): none for a horizon below 1.
forecast_points(forecast_horizon, mean, std) ==
    [k \in 1..forecast_horizon |-> forecast_point(k - 1, mean, std)]

\* Mutant of forecast_result: no fallback for an empty history, the
\* statistics of the empty series are returned (not a number, modelled -1).
forecast_result_nofallback(l, forecast_horizon) ==
    LET mean == IF l.df = <<>> THEN FromInt(-1) ELSE l.mean
        std == IF l.df = <<>> THEN FromInt(-1) ELSE l.std
    IN  [kind |-> "forecast",
         predictions |-> forecast_points(forecast_horizon, mean, std),
         mean |-> mean, std |-> std]

\* What forecast_demand returns, (predictions, mean, std), from its local
\* variables l: the zero forecast on the early return, else the points of
\* the loop.
forecast_result(l, forecast_horizon) ==
    IF l.df = <<>>
    THEN [kind |-> "forecast",
          predictions |-> [k \in 1..forecast_horizon |->
                              [day |-> k, p10 |-> FZero, p50 |-> FZero,
                               p90 |-> FZero]],
          mean |-> FZero, std |-> FZero]
    ELSE [kind |-> "forecast",
          predictions |-> forecast_points(forecast_horizon, l.mean, l.std),
          mean |-> l.mean, std |-> l.std]

\* forecast_demand(sales_data, sku_id, site_id, history_window,
\* forecast_horizon): (predictions, mean, std).
forecast_demand(sales_data, sku_id, site_id, history_window, forecast_horizon) ==
    forecast_result(
        forecast_locals(sales_data, sku_id, site_id, history_window),
        forecast_horizon)

\* --------------------------------------------------------- meio_optimizer

\* A service level or a z-score written in hundredths, 0.85 being Csl2(85).
Csl2(h) == FDecimal(1, BFromInt(h), 2)

\* Mutant of Z_VALUES: the leading digit of the 0.95 entry lost (0.6448536).
Z_VALUES_typo ==
    (Csl2(50) :> FZero) @@
    (Csl2(60) :> FromDecimal(<<253, 3471>>, 7)) @@
    (Csl2(70) :> FromDecimal(<<524, 4005>>, 7)) @@
    (Csl2(80) :> FromDecimal(<<841, 6212>>, 7)) @@
    (Csl2(85) :> FromDecimal(<<1036, 4334>>, 7)) @@
    (Csl2(90) :> FromDecimal(<<1281, 5516>>, 7)) @@
    (Csl2(95) :> FromDecimal(<<644, 8536>>, 7)) @@
    (Csl2(98) :> FromDecimal(<<2053, 7489>>, 7)) @@
    (Csl2(99) :> FromDecimal(<<2326, 3479>>, 7))

\* Z_VALUES: service level -> z-score.
Z_VALUES ==
    (Csl2(50) :> FZero) @@
    (Csl2(60) :> FromDecimal(<<253, 3471>>, 7)) @@
    (Csl2(70) :> FromDecimal(<<524, 4005>>, 7)) @@
    (Csl2(80) :> FromDecimal(<<841, 6212>>, 7)) @@
    (Csl2(85) :> FromDecimal(<<1036, 4334>>, 7)) @@
    (Csl2(90) :> FromDecimal(<<1281, 5516>>, 7)) @@
    (Csl2(95) :> FromDecimal(<<1644, 8536>>, 7)) @@
    (Csl2(98) :> FromDecimal(<<2053, 7489>>, 7)) @@
    (Csl2(99) :> FromDecimal(<<2326, 3479>>, 7))

\* The default of z_values.get(.., 1.2815516).
Z_DEFAULT == FromDecimal(<<1281, 5516>>, 7)

\* z_values=None, and a table given by the caller.
Z_NONE == [none |-> TRUE, table |-> <<>>]
ZGiven(t) == [none |-> FALSE, table |-> t]

\* Mutant of z_lookup: target_csl looked up as given, not rounded
\* (z_values.get(target_csl, default)).
z_lookup_unrounded(target_csl, z_values) ==
    LET table == IF z_values.none THEN Z_VALUES ELSE z_values.table
        key == target_csl
    IN  [key |-> PyRoundDigits(target_csl, 2),
         z |-> IF key \in DOMAIN table THEN table[key] ELSE Z_DEFAULT]

\* z_values.get(round(target_csl, 2), 1.2815516), with the key looked up.
z_get(table, key) ==
    [key |-> key,
     z |-> IF key \in DOMAIN table THEN table[key] ELSE Z_DEFAULT]

z_lookup(target_csl, z_values) ==
    z_get(IF z_values.none THEN Z_VALUES ELSE z_values.table,
          PyRoundDigits(target_csl, 2))

\* The policy of optimize_inventory from mu_lt, sigma_lt and the z-score:
\* the safety stock, the reorder point, the base stock, and the record
\* returned.
inventory_policy(mu_lt, sigma_lt, z) ==
    LET safety_stock == FMul(z, sigma_lt)
        reorder_point == FAdd(mu_lt, safety_stock)
        base_stock == FAdd(reorder_point, mu_lt)
    IN  [kind |-> "meio", mu_lt |-> mu_lt, sigma_lt |-> sigma_lt,
         safety_stock |-> safety_stock, reorder_point |-> reorder_point,
         base_stock |-> base_stock]

\* Mutant of optimize_inventory: the base stock as reorder point plus safety
\* stock, and rounded to whole units.
optimize_inventory_rounded(mean_demand_per_day, std_demand_per_day, lead_time_mean, lead_time_std, target_csl, z_values, libm) ==
    LET mu_lt == FMul(mean_demand_per_day, lead_time_mean)
        sigma_lt ==
            FSqrt(FAdd(FMul(lead_time_mean, Pow2(std_demand_per_day, libm)),
                       FMul(Pow2(mean_demand_per_day, libm),
                            Pow2(lead_time_std, libm))))
        z == z_lookup(target_csl, z_values).z
        safety_stock == FMul(z, sigma_lt)
        reorder_point == FAdd(mu_lt, safety_stock)
        base_stock == FromInt(PyRound(FAdd(reorder_point, safety_stock)))
    IN  [kind |-> "meio", mu_lt |-> mu_lt, sigma_lt |-> sigma_lt,
         safety_stock |-> safety_stock, reorder_point |-> reorder_point,
         base_stock |-> base_stock]

\* optimize_inventory(mean_demand_per_day, std_demand_per_day, lead_time_mean,
\* lead_time_std, target_csl, z_values), on a platform whose pow is libm.
optimize_inventory(mean_demand_per_day, std_demand_per_day, lead_time_mean, lead_time_std, target_csl, z_values, libm) ==
    inventory_policy(
        FMul(mean_demand_per_day, lead_time_mean),
        FSqrt(FAdd(FMul(lead_time_mean, Pow2(std_demand_per_day, libm)),
                   FMul(Pow2(mean_demand_per_day, libm),
                        Pow2(lead_time_std, libm)))),
        z_lookup(target_csl, z_values).z)

\* ------------------------------------------------------------ main (API)

\* The field constraints of ForecastRequest, MEIORequest and ReplenishRequest:
\* a request that breaks one is answered 422.
ForecastRequestValid(json) ==
    json.history_window >= 1 /\ json.forecast_horizon >= 1

MEIORequestValid(json) ==
    /\ FLe(FZero, json.mean_demand_per_day)
    /\ FLe(FZero, json.std_demand_per_day)
    /\ FLt(FZero, json.lead_time_mean)
    /\ FLe(FZero, json.lead_time_std)
    /\ FLt(FZero, json.target_csl)
    /\ FLt(json.target_csl, FromInt(1))

ReplenishRequestValid(json) ==
    FLe(FZero, json.reorder_point) /\ FLe(FZero, json.base_stock)

\* POST /forecast: forecast(request), over the sales history file.  The
\* response model types the points Dict[str, float]: day becomes a float.
ForecastResponse(json, r) ==
    [sku_id |-> json.sku_id, site_id |-> json.site_id,
     mean_demand_per_day |-> r.mean, std_demand_per_day |-> r.std,
     predictions |-> [k \in DOMAIN r.predictions |->
                         [r.predictions[k] EXCEPT !.day = FromInt(@)]]]

api_forecast(sales_history, json) ==
    ForecastResponse(json,
        forecast_demand(sales_history, json.sku_id, json.site_id,
                        json.history_window, json.forecast_horizon))

\* POST /meio/optimize: meio_optimize(request).
MEIOResponse(r) ==
    [mu_lt |-> r.mu_lt, sigma_lt |-> r.sigma_lt,
     safety_stock |-> r.safety_stock, reorder_point |-> r.reorder_point,
     base_stock |-> r.base_stock]

api_meio_optimize(json, libm) ==
    MEIOResponse(
        optimize_inventory(json.mean_demand_per_day, json.std_demand_per_day,
                           json.lead_time_mean, json.lead_time_std,
                           json.target_csl, Z_NONE, libm))

\* The libraries that differ on a request to /meio/optimize.
MEIOLibms(json) ==
    Libms({json.std_demand_per_day, json.mean_demand_per_day,
           json.lead_time_std})

\* POST /replenish: replenish(request).
api_replenish(json) ==
    [order_quantity |-> compute_replenishment(
                            json.net_available, json.reorder_point,
                            json.base_stock)]

\* The answers a POST may get: 200 with the handler's result for a valid
\* request (for /meio/optimize, the result on any C library), 422 for an
\* invalid one, 500 when the server fails.  A float
\* crosses JSON unchanged (its shortest repr parses back to the same double).
Ok(body) == [status |-> 200, body |-> body]
Failure(status) == [status |-> status, body |-> [detail |-> "error"]]

Answers(endpoint, sales_history, json) ==
    {Failure(500)} \cup
    (IF endpoint = "/forecast"
     THEN IF ForecastRequestValid(json)
          THEN {Ok(api_forecast(sales_history, json))} ELSE {Failure(422)}
     ELSE IF endpoint = "/meio/optimize"
     THEN IF MEIORequestValid(json)
          THEN {Ok(api_meio_optimize(json, libm)) : libm \in MEIOLibms(json)}
          ELSE {Failure(422)}
     ELSE IF ReplenishRequestValid(json)
          THEN {Ok(api_replenish(json))} ELSE {Failure(422)})

\* ----------------------------------------------------------- orchestrator

\* The defaults of run_pipeline's history_window and forecast_horizon.
DefaultHistoryWindow == 28
DefaultForecastHorizon == 14

\* Response.raise_for_status(): raises for a 4xx or 5xx status.
raise_for_status(answer) == answer.status >= 400 /\ answer.status < 600

\* A URL is the sequence of its characters, from the letters, the digits and
\* : / . - + (no white space, no user name, query or fragment, no IPv6
\* address, no character outside ASCII).
LowerCase ==
    [c \in {"A", "B", "C", "D", "E", "F", "G", "H", "I", "J", "K", "L", "M"} |->
        CASE c = "A" -> "a" [] c = "B" -> "b" [] c = "C" -> "c" [] c = "D" -> "d"
          [] c = "E" -> "e" [] c = "F" -> "f" [] c = "G" -> "g" [] c = "H" -> "h"
          [] c = "I" -> "i" [] c = "J" -> "j" [] c = "K" -> "k" [] c = "L" -> "l"
          [] c = "M" -> "m"] @@
    [c \in {"N", "O", "P", "Q", "R", "S", "T", "U", "V", "W", "X", "Y", "Z"} |->
        CASE c = "N" -> "n" [] c = "O" -> "o" [] c = "P" -> "p" [] c = "Q" -> "q"
          [] c = "R" -> "r" [] c = "S" -> "s" [] c = "T" -> "t" [] c = "U" -> "u"
          [] c = "V" -> "v" [] c = "W" -> "w" [] c = "X" -> "x" [] c = "Y" -> "y"
          [] c = "Z" -> "z"]

DigitValue ==
    ("0" :> 0) @@ ("1" :> 1) @@ ("2" :> 2) @@ ("3" :> 3) @@ ("4" :> 4) @@
    ("5" :> 5) @@ ("6" :> 6) @@ ("7" :> 7) @@ ("8" :> 8) @@ ("9" :> 9)

Letters == DOMAIN LowerCase \cup {LowerCase[c] : c \in DOMAIN LowerCase}

\* str.lower() and str.startswith()
Lower(url) ==
    [i \in DOMAIN url |->
        IF url[i] \in DOMAIN LowerCase THEN LowerCase[url[i]] ELSE url[i]]

StartsWith(url, prefix) ==
    Len(url) >= Len(prefix) /\ SubSeq(url, 1, Len(prefix)) = prefix

RECURSIVE Find(_, _, _)
\* The place of the first c in url from place i on, Len(url) + 1 if none.
Find(url, c, i) ==
    IF i > Len(url) THEN i ELSE IF url[i] = c THEN i ELSE Find(url, c, i + 1)

RECURSIVE PortNumber(_, _)
\* The number written by the digits ds after n, cut off from 100000 on.
PortNumber(ds, n) ==
    IF ds = <<>> \/ n >= 100000 THEN n
    ELSE PortNumber(Tail(ds), 10 * n + DigitValue[Head(ds)])

\* urllib3's SCHEME_RE, and the scheme of its URI_RE: the URL starts with a
\* letter, then letters, digits, + or -, up to its first colon, at place
\* colon.
SchemeEndsAt(url, colon) ==
    /\ colon >= 2 /\ colon <= Len(url)
    /\ url[1] \in Letters
    /\ \A i \in 2..(colon - 1) : url[i] \in Letters \cup DOMAIN DigitValue \cup {"+", "-"}

\* urllib3's _HOST_PORT_RE and port range on an authority whose first colon
\* is at place colon: nothing after the host, or a colon and a port of
\* digits only that is at most 65535.
PortAllowed(authority, colon) ==
    \/ colon > Len(authority)
    \/ /\ \A i \in (colon + 1)..Len(authority) : authority[i] \in DOMAIN DigitValue
       /\ PortNumber(SubSeq(authority, colon + 1, Len(authority)), 0) <= 65535

\* What becomes of a URL once split: an authority that does not parse is
\* InvalidURL; then no scheme is MissingSchema; then no host, or a host that
\* starts with a dot, is InvalidURL; then a scheme other than http and
\* https has no connection adapter (InvalidSchema); else the request is sent.
PrepareAuthority(scheme, has_scheme, authority, colon) ==
    IF authority # <<>> /\ ~PortAllowed(authority, colon) THEN "InvalidURL"
    ELSE IF ~has_scheme THEN "MissingSchema"
    ELSE IF authority = <<>> \/ colon = 1 THEN "InvalidURL"
    ELSE IF authority[1] = "." THEN "InvalidURL"
    ELSE IF scheme \in {<<"h", "t", "t", "p">>, <<"h", "t", "t", "p", "s">>} THEN "sent"
    ELSE "InvalidSchema"

\* The authority follows two slashes and ends before the next slash.
Authority(rest) ==
    IF StartsWith(rest, <<"/", "/">>)
    THEN SubSeq(rest, 3, Find(rest, "/", 3) - 1) ELSE <<>>

PrepareRest(scheme, has_scheme, rest) ==
    PrepareAuthority(scheme, has_scheme, Authority(rest),
                     Find(Authority(rest), ":", 1))

\* urllib3's parse_url: a URL that does not start with a scheme nor with a
\* slash is read as //URL.
PrepareUrl(url, colon) ==
    IF SchemeEndsAt(url, colon)
    THEN PrepareRest(Lower(SubSeq(url, 1, colon - 1)), TRUE,
                     SubSeq(url, colon + 1, Len(url)))
    ELSE PrepareRest(<<>>, FALSE,
                     IF StartsWith(url, <<"/">>) THEN url ELSE <<"/", "/">> \o url)

\* requests.post(url, ..) before anything is sent: "sent" if the request goes
\* out, else the exception raised.  A URL with a colon that does not start
\* with http is left as it is and finds no connection adapter.
PostUrl(url) ==
    IF Find(url, ":", 1) <= Len(url) /\ ~StartsWith(Lower(url), <<"h", "t", "t", "p">>)
    THEN "InvalidSchema"
    ELSE PrepareUrl(url, Find(url, ":", 1))

\* f"{base_url}/forecast", f"{base_url}/meio/optimize", f"{base_url}/replenish"
EndpointUrl(base_url, endpoint) ==
    base_url \o (IF endpoint = "/forecast" THEN <<"/", "f", "o", "r", "e", "c", "a", "s", "t">>
                 ELSE IF endpoint = "/meio/optimize" THEN <<"/", "m", "e", "i", "o", "/", "o", "p", "t", "i", "m", "i", "z", "e">>
                 ELSE <<"/", "r", "e", "p", "l", "e", "n", "i", "s", "h">>)

forecast_payload(sku_id, site_id, history_window, forecast_horizon) ==
    [sku_id |-> sku_id, site_id |-> site_id,
     history_window |-> history_window, forecast_horizon |-> forecast_horizon]

\* Mutant of meio_payload: the two statistics of the forecast exchanged.
meio_payload_swapped(forecast_data, lead_time_mean, lead_time_std, target_csl) ==
    [mean_demand_per_day |-> forecast_data.std_demand_per_day,
     std_demand_per_day |-> forecast_data.mean_demand_per_day,
     lead_time_mean |-> lead_time_mean, lead_time_std |-> lead_time_std,
     target_csl |-> target_csl]

meio_payload(forecast_data, lead_time_mean, lead_time_std, target_csl) ==
    [mean_demand_per_day |-> forecast_data.mean_demand_per_day,
     std_demand_per_day |-> forecast_data.std_demand_per_day,
     lead_time_mean |-> lead_time_mean, lead_time_std |-> lead_time_std,
     target_csl |-> target_csl]

replenish_payload(net_available, meio_data) ==
    [net_available |-> net_available,
     reorder_point |-> meio_data.reorder_point,
     base_stock |-> meio_data.base_stock]

\* ---------------------------------------------------------------- inputs

\* Direct calls of compute_replenishment: stock levels in quarters of a
\* unit, from -1 to MaxStock.
MaxStock == 3

StockGrid == {Quarters(k) : k \in (-4)..(4 * MaxStock)}

ReplenishCalls ==
    [op : {"replenish"}, net_available : StockGrid,
     reorder_point : StockGrid, base_stock : StockGrid]

\* Direct calls of forecast_demand for SKU1 at STORE1: sales rows of that
\* SKU and store on any day (1 or 2 sold on the first day, 1 on the others),
\* and rows of another SKU or another store on the first and the last day.
MaxDay == 3
MaxRows == 2
MaxHorizon == 2

Qtys == {1, 2}

SalesRow(date, sku_id, site_id, qty) ==
    [date |-> date, sku_id |-> sku_id, site_id |-> site_id, qty |-> qty]

MatchingSalesRows ==
    {SalesRow(1, "SKU1", "STORE1", q) : q \in Qtys}
    \cup {SalesRow(d, "SKU1", "STORE1", 1) : d \in 2..MaxDay}

OtherSalesRows ==
    {SalesRow(1, "SKU2", "STORE1", 2), SalesRow(MaxDay, "SKU1", "STORE2", 2)}

SalesRows == MatchingSalesRows \cup OtherSalesRows

SalesData == UNION {[1..n -> SalesRows] : n \in 0..MaxRows}

\* The windows: negative, empty, short, and as long as or longer than any
\* series.
HistoryWindows == {-1, 0, 1, 2, MaxDay, MaxDay + 1}

ForecastCalls ==
    [op : {"forecast"}, sales_data : SalesData,
     sku_id : {"SKU1"}, site_id : {"STORE1"},
     history_window : HistoryWindows, forecast_horizon : 0..MaxHorizon]

\* Direct calls of optimize_inventory: demand and lead time statistics in
\* halves of a unit.
MaxDemandHalves == 2
MaxLeadHalves == 2

DemandGrid == {Quarters(2 * k) : k \in 0..MaxDemandHalves}
LeadTimeGrid == {Quarters(2 * k) : k \in 1..MaxLeadHalves}
LeadStdGrid == {Quarters(2 * k) : k \in 0..MaxLeadHalves}

\* A service level written in thousandths.
Csl3(k) == FDecimal(1, BFromInt(k), 3)

\* Every service level of (0, 1) with three decimals.
CslSweep == {Csl3(k) : k \in 1..999}

\* Service levels at, next to and between the keys of the table, at the
\* ties of the rounding and at the two ends of (0, 1).
CslGrid ==
    {FDecimal(1, BFromInt(k), 4) :
        k \in {1, 1250, 5000, 6000, 6750, 7000, 8000, 8499, 8500,
               8549, 9000, 9500, 9760, 9800, 9900, 9950, 9999}}

\* A caller's table: only 0.90 and 1.00, with z-scores of its own.
CallerTable == (Csl2(90) :> FromInt(1)) @@ (Csl2(100) :> FromInt(3))

\* The arguments of the calls: the grid at the levels of CslGrid, one
\* profile at every level of CslSweep, and two profiles off the grid, whose
\* squares are not doubles (95.97, 4.536, 7.0, 2.0 and 12.457, 7.964, 9.072,
\* 13.543).
MeioArgs ==
    [op : {"meio"}, mean_demand_per_day : DemandGrid,
     std_demand_per_day : DemandGrid, lead_time_mean : LeadTimeGrid,
     lead_time_std : LeadStdGrid, target_csl : CslGrid,
     z_values : {Z_NONE, ZGiven(CallerTable)}]
    \cup
    [op : {"meio"}, mean_demand_per_day : {Quarters(2)},
     std_demand_per_day : {Quarters(2)}, lead_time_mean : {Quarters(4)},
     lead_time_std : {Quarters(2)}, target_csl : CslSweep,
     z_values : {Z_NONE}]
    \cup
    [op : {"meio"}, mean_demand_per_day : {FromDecimal(<<9597>>, 2)},
     std_demand_per_day : {FromDecimal(<<4536>>, 3)},
     lead_time_mean : {FromInt(7)}, lead_time_std : {FromInt(2)},
     target_csl : {Csl2(90), Csl2(95)},
     z_values : {Z_NONE, ZGiven(CallerTable)}]
    \cup
    [op : {"meio"}, mean_demand_per_day : {FromDecimal(<<1, 2457>>, 3)},
     std_demand_per_day : {FromDecimal(<<7964>>, 3)},
     lead_time_mean : {FromDecimal(<<9072>>, 3)},
     lead_time_std : {FromDecimal(<<1, 3543>>, 3)},
     target_csl : {Csl2(95), Csl2(98)}, z_values : {Z_NONE}]

\* The libraries that differ on a call.
CallLibms(c) ==
    Libms({c.std_demand_per_day, c.mean_demand_per_day, c.lead_time_std})

\* Direct calls of optimize_inventory, each on every C library that differs
\* on its squares (req.libm).
MeioCalls ==
    UNION {{[libm |-> libm] @@ c : libm \in CallLibms(c)} : c \in MeioArgs}

\* The sales history file of the pipeline runs (rows of one SKU at one
\* store): empty, one day, and three days with none sold on the second.
PipelineSales ==
    {<<>>,
     <<SalesRow(1, "SKU1", "STORE1", 2)>>,
     <<SalesRow(1, "SKU1", "STORE1", 2), SalesRow(3, "SKU1", "STORE1", 1)>>}

\* A run of run_pipeline: its arguments, and the sales history file the
\* server reads (sales_history).  A lead_time_mean of 0 is refused by
\* /meio/optimize; requests.post refuses a base_url with no scheme, with a
\* host and a port but no scheme, without a host, or with another scheme
\* than http and https.
BaseUrls ==
    {<<"h", "t", "t", "p", ":", "/", "/", "l", "o", "c", "a", "l", "h", "o", "s", "t", ":", "8", "0", "0", "0">>,
     <<>>,
     <<"l", "o", "c", "a", "l", "h", "o", "s", "t">>,
     <<"l", "o", "c", "a", "l", "h", "o", "s", "t", ":", "8", "0", "0", "0">>,
     <<"h", "t", "t", "p", ":", "/", "/">>,
     <<"f", "t", "p", ":", "/", "/", "l", "o", "c", "a", "l", "h", "o", "s", "t">>}

PipelineRuns ==
    [op : {"pipeline"}, sales_history : PipelineSales,
     base_url : BaseUrls,
     sku_id : {"SKU1"}, site_id : {"STORE1"},
     lead_time_mean : {FZero} \cup LeadTimeGrid,
     lead_time_std : {FZero, Quarters(2)},
     target_csl : {Csl2(90), Csl2(95)},
     net_available : {FromInt(k) : k \in (-1)..MaxStock},
     history_window : {DefaultHistoryWindow},
     forecast_horizon : {DefaultForecastHorizon}]

NoLocal == [fn |-> "none"]
NoResp == [kind |-> "none"]

\* ---------------------------------------------------------------- actions

\* A call of compute_replenishment.
InitReplenish ==
    /\ req \in ReplenishCalls
    /\ pc = "call"
    /\ local = NoLocal
    /\ resp = NoResp

Replenish ==
    /\ pc = "call"
    /\ req.op = "replenish"
    /\ resp' = [kind |-> "replenish",
                order_quantity |-> compute_replenishment(
                    req.net_available, req.reorder_point, req.base_stock)]
    /\ local' = replenishment_locals(
                    req.net_available, req.reorder_point, req.base_stock)
    /\ pc' = "return"
    /\ UNCHANGED req

NextReplenish == Replenish

SpecReplenish == InitReplenish /\ [][NextReplenish]_vars

\* A call of forecast_demand.
InitForecast ==
    /\ req \in ForecastCalls
    /\ pc = "call"
    /\ local = NoLocal
    /\ resp = NoResp

Forecast ==
    /\ pc = "call"
    /\ req.op = "forecast"
    /\ LET l == forecast_locals(req.sales_data, req.sku_id, req.site_id,
                                req.history_window)
       IN  /\ local' = l
           /\ resp' = forecast_result(l, req.forecast_horizon)
    /\ pc' = "return"
    /\ UNCHANGED req

NextForecast == Forecast

SpecForecast == InitForecast /\ [][NextForecast]_vars

\* A call of optimize_inventory.
InitMeio ==
    /\ req \in MeioCalls
    /\ pc = "call"
    /\ local = NoLocal
    /\ resp = NoResp

OptimizeInventory ==
    /\ pc = "call"
    /\ req.op = "meio"
    /\ resp' = optimize_inventory(
                    req.mean_demand_per_day, req.std_demand_per_day,
                    req.lead_time_mean, req.lead_time_std, req.target_csl,
                    req.z_values, req.libm)
    /\ LET zl == z_lookup(req.target_csl, req.z_values)
       IN  local' = [fn |-> "optimize_inventory", key |-> zl.key, z |-> zl.z]
    /\ pc' = "return"
    /\ UNCHANGED req

NextMeio == OptimizeInventory

SpecMeio == InitMeio /\ [][NextMeio]_vars

\* run_pipeline.  local.sent lists the requests posted, local.answers the
\* answers received, in order; local.inflight is the answer of the API to the
\* last request while run_pipeline has not read it; the *_data fields are the
\* function's variables, and local.error names the exception that left the
\* function.
Unset == [unset |-> TRUE]

InitPipeline ==
    /\ req \in PipelineRuns
    /\ pc = "start"
    /\ local = [fn |-> "run_pipeline", sent |-> <<>>, answers |-> <<>>,
                inflight |-> Unset, forecast_data |-> Unset, meio_data |-> Unset,
                repl_data |-> Unset, error |-> "none"]
    /\ resp = NoResp

\* requests.post(url, json=json) with a URL that requests accepts: the
\* request goes out.
Post(endpoint, json) ==
    /\ PostUrl(EndpointUrl(req.base_url, endpoint)) = "sent"
    /\ local' = [local EXCEPT !.sent = Append(@, [endpoint |-> endpoint,
                                                  json |-> json])]

\* The answers the request posted last may get.
PossibleAnswers ==
    Answers(local.sent[Len(local.sent)].endpoint, req.sales_history,
            local.sent[Len(local.sent)].json)

\* The API handles the request posted last: forecast, meio_optimize or
\* replenish of main, or the server's own failure.
Serve ==
    /\ pc \in {"wait_forecast", "wait_meio", "wait_replenish"}
    /\ local.inflight = Unset
    /\ \E a \in PossibleAnswers : local' = [local EXCEPT !.inflight = a]
    /\ UNCHANGED <<req, pc, resp>>

\* The answer run_pipeline reads, and the record of it.
Answered == local.inflight # Unset

Received(a) == [local EXCEPT !.answers = Append(@, a), !.inflight = Unset]

\* requests.post(f"{base_url}/forecast", json=forecast_payload)
PostForecast ==
    /\ req.op = "pipeline"
    /\ pc = "start"
    /\ Post("/forecast",
            forecast_payload(req.sku_id, req.site_id, req.history_window,
                             req.forecast_horizon))
    /\ pc' = "wait_forecast"
    /\ UNCHANGED <<req, resp>>

\* forecast_resp.raise_for_status() passes; forecast_data = forecast_resp.json()
ForecastOk ==
    /\ pc = "wait_forecast"
    /\ Answered
    /\ ~raise_for_status(local.inflight)
    /\ local' = [Received(local.inflight) EXCEPT
                    !.forecast_data = local.inflight.body]
    /\ pc' = "post_meio"
    /\ UNCHANGED <<req, resp>>

\* requests.post(f"{base_url}/meio/optimize", json=meio_payload)
PostMeio ==
    /\ pc = "post_meio"
    /\ Post("/meio/optimize",
            meio_payload(local.forecast_data, req.lead_time_mean,
                         req.lead_time_std, req.target_csl))
    /\ pc' = "wait_meio"
    /\ UNCHANGED <<req, resp>>

\* meio_resp.raise_for_status() passes; meio_data = meio_resp.json()
MeioOk ==
    /\ pc = "wait_meio"
    /\ Answered
    /\ ~raise_for_status(local.inflight)
    /\ local' = [Received(local.inflight) EXCEPT
                    !.meio_data = local.inflight.body]
    /\ pc' = "post_replenish"
    /\ UNCHANGED <<req, resp>>

\* requests.post(f"{base_url}/replenish", json=replenish_payload)
PostReplenish ==
    /\ pc = "post_replenish"
    /\ Post("/replenish", replenish_payload(req.net_available, local.meio_data))
    /\ pc' = "wait_replenish"
    /\ UNCHANGED <<req, resp>>

\* repl_resp.raise_for_status() passes; repl_data = repl_resp.json(); return
ReplenishOkAndReturn ==
    /\ pc = "wait_replenish"
    /\ Answered
    /\ ~raise_for_status(local.inflight)
    /\ local' = [Received(local.inflight) EXCEPT
                    !.repl_data = local.inflight.body]
    /\ resp' = [kind |-> "pipeline", forecast |-> local.forecast_data,
                meio |-> local.meio_data,
                replenishment |-> local.inflight.body]
    /\ pc' = "done"
    /\ UNCHANGED req

\* raise_for_status() raises in any of the three stages: the exception leaves
\* run_pipeline.
StageRaises ==
    /\ pc \in {"wait_forecast", "wait_meio", "wait_replenish"}
    /\ Answered
    /\ raise_for_status(local.inflight)
    /\ local' = [Received(local.inflight) EXCEPT !.error = "HTTPError"]
    /\ pc' = "raised"
    /\ UNCHANGED <<req, resp>>

\* requests.post raises without an answer in any of the three stages (the
\* server is not reachable, the connection breaks or times out, an answer
\* on its way is lost): the exception leaves run_pipeline.
PostRaises ==
    /\ pc \in {"wait_forecast", "wait_meio", "wait_replenish"}
    /\ local' = [local EXCEPT !.error = "ConnectionError", !.inflight = Unset]
    /\ pc' = "raised"
    /\ UNCHANGED <<req, resp>>

\* The endpoint of the next post.
NextEndpoint ==
    IF pc = "start" THEN "/forecast"
    ELSE IF pc = "post_meio" THEN "/meio/optimize" ELSE "/replenish"

\* requests.post refuses the URL (MissingSchema, InvalidSchema or
\* InvalidURL): nothing is sent, the exception leaves run_pipeline.
PostRefusesUrl ==
    /\ req.op = "pipeline"
    /\ pc \in {"start", "post_meio", "post_replenish"}
    /\ PostUrl(EndpointUrl(req.base_url, NextEndpoint)) # "sent"
    /\ local' = [local EXCEPT
                    !.error = PostUrl(EndpointUrl(req.base_url, NextEndpoint))]
    /\ pc' = "raised"
    /\ UNCHANGED <<req, resp>>

NextPipeline ==
    \/ PostForecast
    \/ Serve
    \/ ForecastOk
    \/ PostMeio
    \/ MeioOk
    \/ PostReplenish
    \/ ReplenishOkAndReturn
    \/ StageRaises
    \/ PostRaises
    \/ PostRefusesUrl

SpecPipeline == InitPipeline /\ [][NextPipeline]_vars

\* --------------------------------------------- claims: replenishment

Returned(op) == pc = "return" /\ req.op = op

\* C1: when net_available >= reorder_point (equality included) the order
\* quantity is 0, whatever base_stock is.
C1_NoOrderAtOrAboveReorderPoint ==
    (Returned("replenish") /\ FLe(req.reorder_point, req.net_available))
        => resp.order_quantity = 0

C1_Witness ==
    /\ Returned("replenish")
    /\ req.net_available = req.reorder_point
    /\ FLt(FAdd(req.net_available, FromInt(1)), req.base_stock)
    /\ "order_qty" \notin DOMAIN local
    /\ resp.order_quantity = 0

\* C2: when net_available < reorder_point the order quantity is
\* round(max(0, base_stock - net_available)): clamping before rounding gives
\* what the code's rounding before clamping gives, ties and negative
\* differences included.
C2_OrderIsRoundOfClampedGap ==
    (Returned("replenish") /\ FLt(req.net_available, req.reorder_point))
        => resp.order_quantity
             = PyRound(FMax(FZero, FSub(req.base_stock, req.net_available)))

C2_Witness ==
    /\ Returned("replenish")
    /\ FLt(req.net_available, req.reorder_point)
    /\ FSub(req.base_stock, req.net_available) = Quarters(10)
    /\ local.order_qty = Quarters(10)
    /\ resp.order_quantity = 2

\* C3: the order quantity is an integer >= 0 for every combination of
\* inputs (negative net_available, base_stock below reorder_point or below
\* net_available included).
C3_OrderIsNatural ==
    Returned("replenish") => resp.order_quantity \in Nat

C3_Witness ==
    /\ Returned("replenish")
    /\ FLt(req.net_available, FZero)
    /\ FLt(req.net_available, req.reorder_point)
    /\ FLt(req.base_stock, req.reorder_point)
    /\ PyRound(FSub(req.base_stock, req.net_available)) < 0
    /\ resp.order_quantity = 0

\* C4: when net_available < reorder_point the order reaches the base stock
\* level: net_available + order_quantity >= base_stock.
C4_OrderReachesBaseStock ==
    (Returned("replenish") /\ FLt(req.net_available, req.reorder_point))
        => FLe(req.base_stock,
               FAdd(req.net_available, FromInt(resp.order_quantity)))

\* ------------------------------------------------- claims: forecasting

\* The rows of the request that match its sku_id and site_id, by index.
MatchingRows ==
    {i \in DOMAIN req.sales_data :
        /\ req.sales_data[i].sku_id = req.sku_id
        /\ req.sales_data[i].site_id = req.site_id}

MatchingDates == {req.sales_data[i].date : i \in MatchingRows}

RECURSIVE SumQtyOver(_, _)
\* The sum of qty over the entries of seq with an index in S.
SumQtyOver(S, seq) ==
    IF S = {} THEN 0
    ELSE LET i == CHOOSE i \in S : TRUE
         IN  seq[i].qty + SumQtyOver(S \ {i}, seq)

\* |a - b| for two natural numbers
BDist(a, b) == IF BCmp(a, b) >= 0 THEN BSub(a, b) ELSE BSub(b, a)

\* x is a double nearest to num / den, for integers num >= 0 and den > 0:
\* x = m * 2^e lies within half of 2^e of the quotient.
NearestToRatio(x, num, den) ==
    IF num = 0 THEN x = FZero
    ELSE /\ x.s = 1
         /\ x.e <= 0
         /\ BCmp(BDist(BMulSmall(x.m, 2 * den), BShl(BFromInt(2 * num), -x.e)),
                 BFromInt(den)) <= 0

\* x is sqrt(num) / den, for integers num >= 0 and den > 0, to a relative
\* error of 2^-48 in the square: |x^2 * den^2 - num| * 2^48 <= num.
NearSqrtOfRatio(x, num, den) ==
    IF num = 0 THEN x = FZero
    ELSE /\ x.s = 1
         /\ x.e <= 0
         /\ LET sq == BMulSmall(BMulSmall(BMul(x.m, x.m), den), den)
                rhs == BShl(BFromInt(num), -2 * x.e)
            IN  BCmp(BShl(BDist(sq, rhs), 48), rhs) <= 0

\* C5: with no row matching both sku_id and site_id the call returns, without
\* error, exactly forecast_horizon points, each p10 = p50 = p90 = 0.0, and
\* mean = std = 0.0.
C5_EmptyHistoryGivesZeroForecast ==
    (Returned("forecast") /\ MatchingRows = {})
        => /\ resp.kind = "forecast"
           /\ Len(resp.predictions) = Max(0, req.forecast_horizon)
           /\ \A k \in 1..req.forecast_horizon :
                  /\ resp.predictions[k].p10 = FZero
                  /\ resp.predictions[k].p50 = FZero
                  /\ resp.predictions[k].p90 = FZero
           /\ resp.mean = FZero
           /\ resp.std = FZero

C5_Witness ==
    /\ Returned("forecast")
    /\ MatchingRows = {}
    /\ Len(req.sales_data) = 2
    /\ req.sales_data[1].sku_id = req.sku_id
    /\ req.sales_data[2].site_id = req.site_id
    /\ req.history_window >= 1
    /\ Len(resp.predictions) = 2

\* C6: when std = 0 every point has p10 = p50 = p90 = mean; when std > 0
\* every point has p50 = mean, p10 = max(0, mean - z90 * std) and
\* p90 = max(0, mean + z90 * std), z90 = 1.2815515655446004.
C6_QuantilesFromMeanAndStd ==
    (Returned("forecast") /\ resp.kind = "forecast")
        => \A k \in DOMAIN resp.predictions :
              LET pt == resp.predictions[k]
                  spread == FMul(Z90, resp.std)
              IN  /\ pt.p50 = resp.mean
                  /\ resp.std = FZero
                        => (pt.p10 = resp.mean /\ pt.p90 = resp.mean)
                  /\ FLt(FZero, resp.std) =>
                        /\ pt.p10 = FMax(FZero, FSub(resp.mean, spread))
                        /\ pt.p90 = FMax(FZero, FAdd(resp.mean, spread))

C6_Witness ==
    /\ Returned("forecast")
    /\ req.forecast_horizon >= 1
    /\ FLt(FZero, resp.std)
    /\ FLt(FZero, resp.mean)
    /\ FLt(resp.mean, FMul(Z90, resp.std))
    /\ resp.predictions[1].p10 = FZero
    /\ FLt(resp.mean, resp.predictions[1].p90)

\* C7: the forecast is flat: the points are numbered day = 1..forecast_horizon
\* in order, all carry the same p10/p50/p90, and the output for a shorter
\* horizon h1 is the first h1 points of the output, with the same mean and std.
C7_FlatProjection ==
    (Returned("forecast") /\ resp.kind = "forecast")
        => /\ Len(resp.predictions) = Max(0, req.forecast_horizon)
           /\ \A k \in DOMAIN resp.predictions :
                  /\ resp.predictions[k].day = k
                  /\ resp.predictions[k].p10 = resp.predictions[1].p10
                  /\ resp.predictions[k].p50 = resp.predictions[1].p50
                  /\ resp.predictions[k].p90 = resp.predictions[1].p90
           /\ \A h1 \in 1..req.forecast_horizon :
                  LET r1 == forecast_demand(req.sales_data, req.sku_id,
                                            req.site_id, req.history_window, h1)
                  IN  /\ r1.predictions = SubSeq(resp.predictions, 1, h1)
                      /\ r1.mean = resp.mean
                      /\ r1.std = resp.std

C7_Witness ==
    /\ Returned("forecast")
    /\ req.forecast_horizon >= 2
    /\ FLt(FZero, resp.std)
    /\ resp.mean = Quarters(6)
    /\ FLt(FZero, resp.predictions[2].p10)
    /\ FLt(resp.predictions[2].p50, resp.predictions[2].p90)

\* C8: the daily series has one entry per calendar day from the first to
\* the last date of the matching rows, in date order; a day's quantity is the
\* sum of the quantities of the matching rows of that day, 0 when it has none.
C8_DailyAggregation ==
    (Returned("forecast") /\ MatchingRows # {})
        => LET first == SetMin(MatchingDates)
               last == SetMax(MatchingDates)
           IN  /\ Len(local.series) = last - first + 1
               /\ \A k \in 1..Len(local.series) :
                      /\ local.series[k].date = first + k - 1
                      /\ local.series[k].qty =
                            SumQtyOver({i \in MatchingRows :
                                          req.sales_data[i].date = first + k - 1},
                                       req.sales_data)

C8_Witness ==
    /\ Returned("forecast")
    /\ MatchingRows # {}
    /\ Len(local.series) = 3
    /\ local.series[1].qty > 0
    /\ local.series[2].qty = 0
    /\ local.series[3].qty > 0

\* C9: the statistics are those of the last min(history_window, length)
\* entries of the daily series: mean is their arithmetic mean (zero days
\* included), std their population standard deviation, and std is 0.0 when the
\* window has fewer than 2 entries.
C9_StatisticsWindow ==
    (Returned("forecast") /\ MatchingRows # {} /\ req.history_window >= 1)
        => LET len == Len(local.series)
               m == Min(req.history_window, len)
               window == {len - m + k : k \in 1..m}
               total == SumQtyOver(window, local.series)
               sq == [k \in DOMAIN local.series |->
                        [qty |-> local.series[k].qty * local.series[k].qty]]
               \* m * m * variance
               v == m * SumQtyOver(window, sq) - total * total
           IN  /\ local.recent = [k \in 1..m |-> local.series[len - m + k]]
               /\ NearestToRatio(resp.mean, total, m)
               /\ NearSqrtOfRatio(resp.std, v, m)
               /\ m < 2 => resp.std = FZero

C9_Witness ==
    /\ Returned("forecast")
    /\ MatchingRows # {}
    /\ Len(local.series) = 3
    /\ req.history_window = 2
    /\ local.series[1].qty = 2
    /\ local.series[2].qty = 0
    /\ local.series[3].qty = 1
    /\ resp.mean = Quarters(2)
    /\ resp.std = Quarters(2)

\* ------------------------------------------------------- claims: MEIO

\* The keys of the default z table, in hundredths.
DefaultKeys == {50, 60, 70, 80, 85, 90, 95, 98, 99}

\* h hundredths is x rounded to 2 decimals, for a double x = m * 2^e in
\* (0, 1): the exact value of x lies within half a hundredth of it.
RoundsTo2(x, h) ==
    /\ x.s = 1
    /\ x.e < 0
    /\ BCmp(BDist(BMulSmall(x.m, 200), BShl(BFromInt(2 * h), -x.e)),
            BShl(<<1>>, -x.e)) <= 0

\* C10: with the default table the z-score used is the table's entry for
\* target_csl rounded to 2 decimals when that is one of 0.50, 0.60, 0.70,
\* 0.80, 0.85, 0.90, 0.95, 0.98, 0.99, and 1.2815516 otherwise; the call
\* returns a result for every target_csl of (0, 1).
C10_ZScoreLookupWithDefault ==
    (Returned("meio") /\ req.z_values.none)
        => LET h == PyRound(FMul(local.key, FromInt(100)))
           IN  /\ resp.kind = "meio"
               \* local.key is target_csl rounded to the hundredth
               /\ local.key = Csl2(h)
               /\ RoundsTo2(req.target_csl, h)
               /\ h \in DefaultKeys => local.z = Z_VALUES[Csl2(h)]
               /\ h \notin DefaultKeys
                     => local.z = FromDecimal(<<1281, 5516>>, 7)
               /\ resp.safety_stock = FMul(local.z, resp.sigma_lt)

C10_Witness ==
    /\ Returned("meio")
    /\ req.z_values.none
    /\ FLt(req.target_csl, Quarters(2))
    /\ local.key \notin DOMAIN Z_VALUES
    /\ FLt(FZero, resp.sigma_lt)
    /\ resp.safety_stock = FMul(FromDecimal(<<1281, 5516>>, 7), resp.sigma_lt)

\* C10, second witness part: 0.995 is rounded down to the key 0.99, the
\* double being below the tie.
C10_TieBelowReached ==
    /\ Returned("meio")
    /\ req.z_values.none
    /\ req.target_csl = Csl3(995)
    /\ local.z = FromDecimal(<<2326, 3479>>, 7)

\* C11: with the default table and the other arguments fixed, a lower table
\* service level c1 < c2 never gives a larger safety_stock, reorder_point or
\* base_stock than c2.
C11_MonotoneInServiceLevel ==
    (Returned("meio") /\ req.z_values.none
        /\ req.target_csl \in DOMAIN Z_VALUES)
        => \A c1 \in {c \in DOMAIN Z_VALUES : FLt(c, req.target_csl)} :
              LET r1 == optimize_inventory(
                            req.mean_demand_per_day, req.std_demand_per_day,
                            req.lead_time_mean, req.lead_time_std, c1,
                            req.z_values, req.libm)
              IN  /\ FLe(r1.safety_stock, resp.safety_stock)
                  /\ FLe(r1.reorder_point, resp.reorder_point)
                  /\ FLe(r1.base_stock, resp.base_stock)
                  /\ r1.mu_lt = resp.mu_lt
                  /\ r1.sigma_lt = resp.sigma_lt

C11_Witness ==
    /\ Returned("meio")
    /\ req.z_values.none
    /\ req.target_csl = Csl2(99)
    /\ FLt(FZero, resp.sigma_lt)
    /\ FLt(optimize_inventory(
               req.mean_demand_per_day, req.std_demand_per_day,
               req.lead_time_mean, req.lead_time_std, Csl2(98),
               req.z_values, req.libm).safety_stock,
           resp.safety_stock)

\* |a|
FAbs(a) == IF a.s < 0 THEN FNeg(a) ELSE a

\* a and b differ by at most 2^-50 * scale.
WithinRounding(a, b, scale) ==
    FLe(FAbs(FSub(a, b)), FMul(FRound(1, <<1>>, -50), scale))

\* The exact sum of the dyadic numbers a.m * 2^a.e and b.m * 2^b.e.
DyadicSum(a, b) ==
    [m |-> BAdd(BShl(a.m, a.e - Min(a.e, b.e)), BShl(b.m, b.e - Min(a.e, b.e))),
     e |-> Min(a.e, b.e)]

\* The exact value of lt_mean * std_d^2 + mean_d^2 * lt_std^2.
ExactRadicand(mean_d, std_d, lt_mean, lt_std) ==
    DyadicSum([m |-> BMul(lt_mean.m, BMul(std_d.m, std_d.m)),
               e |-> lt_mean.e + 2 * std_d.e],
              [m |-> BMul(BMul(mean_d.m, mean_d.m), BMul(lt_std.m, lt_std.m)),
               e |-> 2 * mean_d.e + 2 * lt_std.e])

\* x is the square root of the dyadic number r to a relative error of 2^-48
\* in the square: |x^2 - r| * 2^48 <= r.
NearSqrtOfDyadic(x, r) ==
    IF r.m = <<>> THEN x = FZero
    ELSE /\ x.s = 1
         /\ LET lo == Min(2 * x.e, r.e)
                sq == BShl(BMul(x.m, x.m), 2 * x.e - lo)
                rhs == BShl(r.m, r.e - lo)
            IN  BCmp(BShl(BDist(sq, rhs), 48), rhs) <= 0

\* The equations of C12 that define the outputs, each holding exactly as
\* one float operation, and the outputs for zero demand.
PolicyEquations ==
    /\ resp.mu_lt = FMul(req.mean_demand_per_day, req.lead_time_mean)
    /\ NearSqrtOfDyadic(resp.sigma_lt,
                        ExactRadicand(req.mean_demand_per_day,
                                      req.std_demand_per_day,
                                      req.lead_time_mean, req.lead_time_std))
    /\ resp.safety_stock = FMul(local.z, resp.sigma_lt)
    /\ resp.reorder_point = FAdd(resp.mu_lt, resp.safety_stock)
    /\ resp.base_stock = FAdd(resp.reorder_point, resp.mu_lt)
    /\ (req.mean_demand_per_day = FZero /\ req.std_demand_per_day = FZero)
         => /\ resp.mu_lt = FZero
            /\ resp.sigma_lt = FZero
            /\ resp.safety_stock = FZero
            /\ resp.reorder_point = FZero
            /\ resp.base_stock = FZero

\* C12 as stated: the returned record has mu_lt = mean_d * lt_mean,
\* safety_stock = z * sigma_lt, reorder_point = mu_lt + safety_stock and
\* base_stock = reorder_point + mu_lt, so that
\* base_stock - reorder_point = mu_lt and base_stock = 2 * mu_lt + safety_stock,
\* unrounded; zero demand (mean_d = std_d = 0) gives five zeros.
C12_PolicyIdentities ==
    Returned("meio")
        => /\ PolicyEquations
           /\ FSub(resp.base_stock, resp.reorder_point) = resp.mu_lt
           /\ resp.base_stock
                = FAdd(FMul(FromInt(2), resp.mu_lt), resp.safety_stock)

\* C12 as it holds: the four defining equations hold exactly, each as one
\* float operation on the returned values, and zero demand gives five zeros;
\* the two derived identities hold up to the rounding of the additions, the
\* two sides differing by at most 2^-50 * (|mu_lt| + |safety_stock|).
C12_PolicyIdentitiesUpToRounding ==
    Returned("meio")
        => LET scale == FAdd(FAbs(resp.mu_lt), FAbs(resp.safety_stock))
           IN  /\ PolicyEquations
               /\ WithinRounding(FSub(resp.base_stock, resp.reorder_point),
                                 resp.mu_lt, scale)
               /\ WithinRounding(resp.base_stock,
                                 FAdd(FMul(FromInt(2), resp.mu_lt),
                                      resp.safety_stock),
                                 scale)

\* A call whose base_stock - reorder_point is not mu_lt: the sum
\* reorder_point + mu_lt was rounded.
C12_Witness ==
    /\ Returned("meio")
    /\ req.z_values.none
    /\ req.mean_demand_per_day = Quarters(2)
    /\ req.lead_time_mean = Quarters(2)
    /\ resp.mu_lt = Quarters(1)
    /\ FLt(FZero, resp.sigma_lt)
    /\ resp.base_stock = FAdd(resp.reorder_point, Quarters(1))
    /\ FSub(resp.base_stock, resp.reorder_point) # Quarters(1)
    /\ resp.base_stock # FromInt(PyRound(resp.base_stock))

\* C12, second witness part: a call with zero demand.
C12_ZeroDemandReached ==
    /\ Returned("meio")
    /\ req.mean_demand_per_day = FZero
    /\ req.std_demand_per_day = FZero
    /\ FLt(FZero, req.lead_time_std)
    /\ resp.base_stock = FZero

\* ---------------------------------------------------- claims: pipeline

StageOrder == <<"/forecast", "/meio/optimize", "/replenish">>

\* C13: run_pipeline posts forecast, MEIO optimize, replenish in this order,
\* each at most once; the MEIO request follows a successful forecast and
\* carries its mean and std; the replenish request follows a successful MEIO
\* answer and carries its reorder_point and base_stock; after a failed stage
\* (an error status, or a post that raised without an answer) nothing more
\* is posted and nothing is returned; a returned result holds the three
\* stage outputs.
C13_StrictSequence ==
    (req.op = "pipeline")
        => LET n == Len(local.sent)
               k == Len(local.answers)
               succeeded(i) == i <= k /\ local.answers[i].status = 200
           IN  /\ n <= 3
               /\ \A i \in 1..n : local.sent[i].endpoint = StageOrder[i]
               /\ k \in {n - 1, n} /\ k >= 0
               \* a request is posted only after every earlier one succeeded
               /\ \A i \in 1..n : \A j \in 1..(i - 1) : succeeded(j)
               /\ n >= 2 =>
                    /\ local.sent[2].json.mean_demand_per_day
                         = local.answers[1].body.mean_demand_per_day
                    /\ local.sent[2].json.std_demand_per_day
                         = local.answers[1].body.std_demand_per_day
               /\ n >= 3 =>
                    /\ local.sent[3].json.reorder_point
                         = local.answers[2].body.reorder_point
                    /\ local.sent[3].json.base_stock
                         = local.answers[2].body.base_stock
               \* a failure ends the run without a result
               /\ (\E i \in 1..k : ~succeeded(i))
                    => (pc = "raised" /\ k = n /\ resp = NoResp)
               /\ (pc = "raised") <=> (local.error # "none")
               /\ pc = "raised" =>
                    /\ resp = NoResp
                    /\ local.error = "HTTPError" => (k = n /\ ~succeeded(k))
                    /\ local.error = "ConnectionError" => k = n - 1
                    /\ local.error \in {"MissingSchema", "InvalidSchema",
                                        "InvalidURL"} => n = 0
               /\ resp # NoResp
                    => /\ pc = "done"
                       /\ n = 3 /\ k = 3
                       /\ \A i \in 1..3 : succeeded(i)
                       /\ resp.forecast = local.answers[1].body
                       /\ resp.meio = local.answers[2].body
                       /\ resp.replenishment = local.answers[3].body

\* C13, as steps: a post only ever appends the next stage's request, and once
\* a stage has raised nothing changes any more.
C13_NoStepAfterFailure ==
    [][ /\ pc = "raised" => UNCHANGED vars
        /\ Len(local'.sent) \in {Len(local.sent), Len(local.sent) + 1}
        /\ SubSeq(local'.sent, 1, Len(local.sent)) = local.sent ]_vars

C13_Witness ==
    /\ req.op = "pipeline"
    /\ pc = "done"
    /\ Len(local.sent) = 3
    /\ FLt(FZero, local.forecast_data.std_demand_per_day)
    /\ local.forecast_data.mean_demand_per_day
         # local.forecast_data.std_demand_per_day
    /\ local.sent[2].json.mean_demand_per_day
         = local.forecast_data.mean_demand_per_day
    /\ resp.replenishment.order_quantity > 0

\* C13, second witness part: the MEIO stage refused (lead_time_mean = 0),
\* after a forecast that succeeded.
C13_MeioFailureReached ==
    /\ req.op = "pipeline"
    /\ pc = "raised"
    /\ Len(local.sent) = 2
    /\ Len(local.answers) = 2
    /\ local.answers[2].status = 422
    /\ local.forecast_data # Unset
    /\ local.meio_data = Unset

\* C13, third witness part: the MEIO post raised without an answer, after a
\* forecast that succeeded.
C13_MeioPostRaisedReached ==
    /\ req.op = "pipeline"
    /\ pc = "raised"
    /\ local.error = "ConnectionError"
    /\ Len(local.sent) = 2
    /\ Len(local.answers) = 1
    /\ local.meio_data = Unset

\* C13, fourth witness part: the URL refused, nothing sent.
C13_UrlRefusedReached ==
    /\ req.op = "pipeline"
    /\ pc = "raised"
    /\ local.error = "InvalidSchema"
    /\ req.base_url # <<>>
    /\ local.sent = <<>>

====
